---------------------------- MODULE Spec2Model ----------------------------
(***************************************************************************)
(* A model of the meta-tracing engine of grass (driver/mod.rs,             *)
(* driver/meta/interp.rs) and of the counter client that embeds it         *)
(* (counter/src/main.rs).                                                  *)
(*                                                                         *)
(* The interpreter state is a record st = [stack, frames, heap, ok]:       *)
(*   stack   the operand stack (Vec<StackVal>)                             *)
(*   frames  the call-frame stack (Vec<CallFrame>)                         *)
(*   heap    the Rc<RefCell<R_BoxedValue>> cells, addressed by index       *)
(*   ok      FALSE once a panic!/unwrap()/index check has aborted the run  *)
(***************************************************************************)
EXTENDS Integers, Sequences, FiniteSets, TLC

VARIABLES
    user_program,   \* main: the embedding program (array of DEC/REP/INC)
    cell,           \* main: the external cell
    pc,             \* main: the embedding program's program counter
    at,             \* where control is: "header", "body", "trace", "trace_ret",
                    \*   "run_trace", "blackhole", "bh_ret", "done", "panic"
    tracer,         \* Driver.tracer: [counter, traces, loop_start,
                    \*   seen_jump_targets, active]
    st,             \* the Interpreter of the running merge_point call
    ip,             \* pc / func_pointer of Interpreter::trace and ::blackhole
    start,          \* the start argument of trace / blackhole
    tpc,            \* pc of Interpreter::run_trace
    cur_trace,      \* the trace handed to run_trace
    res,            \* the MergePointResult of the last handle_mergepoint
    h               \* history of the running call and of the run (observers)

vars == <<user_program, cell, pc, at, tracer, st, ip, start, tpc, cur_trace,
          res, h>>

-----------------------------------------------------------------------------
(* Bounds of the model *)

MaxCell == 10          \* main starts with cell in 1..MaxCell
MaxKey == 3           \* merge_point is called directly with pc in 0..MaxKey
MaxDirectCell == 2    \* ... and with cell in 0..MaxDirectCell
MaxTracerKey == 1     \* the Tracer is called directly with keys 0..MaxTracerKey
MaxBuf == 1           \* ... and records at most MaxBuf opcodes, cached ones included
MaxStream == 3        \* eliminate_unused_vars is given streams of at most MaxStream opcodes

-----------------------------------------------------------------------------
(* Value model *)

Null == [t |-> "Null", v |-> 0]
Usize(n) == [t |-> "Usize", v |-> n]
Bool(b) == [t |-> "Bool", v |-> b]
StructV(cells) == [t |-> "Struct", v |-> cells]
PtrV(c) == [t |-> "Ptr", v |-> c]
FuncV(i) == [t |-> "Func", v |-> i]
StaticV(i) == [t |-> "Static", v |-> i]

Owned(val) == [k |-> "Owned", val |-> val]
Ref(c) == [k |-> "Ref", cell |-> c]

IP(f, p) == [func |-> f, pc |-> p]
NoReturn == [some |-> FALSE, func |-> 0, pc |-> 0]
ReturnTo(f, p) == [some |-> TRUE, func |-> f, pc |-> p]

\* usize arithmetic wraps; the model narrows the width to 16 bits
Wrap(n) == n % (2 ^ 16)

\* cells are numbered from 0
CellValue(heap, c) == heap[c + 1]

into_owned(heap, sv) ==
    IF sv.k = "Owned" THEN sv ELSE Owned(CellValue(heap, sv.cell))

-----------------------------------------------------------------------------
(* Opcodes *)

Op(name) == [op |-> name]
OpN(name, n) == [op |-> name, n |-> n]
ConstValue(val) == [op |-> "ConstValue", val |-> val]
BinOp(kind) == [op |-> "BinOp", kind |-> kind]
CheckedBinOp(kind) == [op |-> "CheckedBinOp", kind |-> kind]
GuardOp(expected, recovery) ==
    [op |-> "Guard", expected |-> expected, recovery |-> recovery]

IsJump(oc) == oc.op \in {"Skip", "JumpBack"}
IsBranch(oc) == oc.op \in {"SkipIf", "JumpBackIf"}

-----------------------------------------------------------------------------
(* Interpreter: operand stack, cells and frames.  Indices are 0-based as   *)
(* in the source; At reads a 0-based index of a sequence.                  *)

At(seq, i) == seq[i + 1]
InRange(seq, i) == i >= 0 /\ i < Len(seq)

Fail(s) == [s EXCEPT !.ok = FALSE]
Top(s) == s.stack[Len(s.stack)]
Pop(s) == [s EXCEPT !.stack = SubSeq(@, 1, Len(@) - 1)]
Push(s, sv) == [s EXCEPT !.stack = Append(@, sv)]
HasTop(s) == Len(s.stack) > 0

NewInterpreter == [stack |-> <<>>, frames |-> <<>>, heap |-> <<>>, ok |-> TRUE]

\* n fresh cells holding the placeholder, appended to the heap
FreshCells(heap, n) == [i \in 1..n |-> Len(heap) + i - 1]
AllocNull(heap, n) == heap \o [i \in 1..n |-> Null]

HasConst(prog, idx) ==
    /\ InRange(prog, idx)
    /\ Len(At(prog, idx).code) > 0
    /\ At(At(prog, idx).code, 0).op = "ConstValue"

load_const(prog, idx) == At(At(prog, idx).code, 0).val

\* the owned value of a stack entry, a Static read through the constant table
ValueOf(prog, s, sv) ==
    LET val == into_owned(s.heap, sv).val
    IN  IF val.t = "Static" THEN load_const(prog, val.v) ELSE val

CanValue(prog, s) ==
    /\ HasTop(s)
    /\ LET val == into_owned(s.heap, Top(s)).val
       IN  val.t = "Static" => HasConst(prog, val.v)

peek_value(prog, s) == ValueOf(prog, s, Top(s))

HasFrame(s) == Len(s.frames) > 0
active_frame(s) == s.frames[Len(s.frames)]

o_load(s, i) ==
    IF HasFrame(s) /\ InRange(active_frame(s).locals, i)
    THEN Push(s, Ref(At(active_frame(s).locals, i)))
    ELSE Fail(s)

o_store(s, i) ==
    IF /\ HasTop(s)
       /\ HasFrame(s)
       /\ InRange(active_frame(s).locals, i)
       /\ Top(s).k = "Owned"
    THEN [Pop(s) EXCEPT !.heap[At(active_frame(s).locals, i) + 1] = Top(s).val]
    ELSE Fail(s)

o_ref(s) ==
    IF HasTop(s) /\ Top(s).k = "Ref"
    THEN Push(Pop(s), Owned(PtrV(Top(s).cell)))
    ELSE Fail(s)

\* mutant: Deref pushes a copy of the value the pointer leads to
o_deref_by_value(s) ==
    IF HasTop(s) /\ into_owned(s.heap, Top(s)).val.t = "Ptr"
    THEN Push(Pop(s), Owned(CellValue(s.heap, into_owned(s.heap, Top(s)).val.v)))
    ELSE Fail(s)

o_deref(s) ==
    IF HasTop(s) /\ into_owned(s.heap, Top(s)).val.t = "Ptr"
    THEN Push(Pop(s), Ref(into_owned(s.heap, Top(s)).val.v))
    ELSE Fail(s)

o_use(s) ==
    IF HasTop(s) THEN Push(Pop(s), into_owned(s.heap, Top(s))) ELSE Fail(s)

\* R_Struct::set through the shared cells of the struct
StructSet(s, cells, idx, val) == [s EXCEPT !.heap[At(cells, idx) + 1] = val]

o_tuple(s, size) ==
    [s EXCEPT !.heap = AllocNull(@, size),
              !.stack = Append(@, Owned(StructV(FreshCells(s.heap, size))))]

o_tuple_init(prog, s, idx) ==
    IF CanValue(prog, s)
    THEN LET val == peek_value(prog, s)
             s1  == Pop(s)
         IN  IF /\ HasTop(s1)
                /\ Top(s1).k = "Owned"
                /\ Top(s1).val.t = "Struct"
                /\ InRange(Top(s1).val.v, idx)
             THEN StructSet(s1, Top(s1).val.v, idx, val)
             ELSE Fail(s1)
    ELSE Fail(s)

o_tuple_set(prog, s, idx) ==
    IF CanValue(prog, s)
    THEN LET boxed_tuple == peek_value(prog, s)
             s1 == Pop(s)
         IN  IF CanValue(prog, s1)
             THEN LET val == peek_value(prog, s1)
                      s2  == Pop(s1)
                  IN  IF boxed_tuple.t = "Struct" /\ InRange(boxed_tuple.v, idx)
                      THEN StructSet(s2, boxed_tuple.v, idx, val)
                      ELSE Fail(s2)
             ELSE Fail(s1)
    ELSE Fail(s)

o_tuple_get(prog, s, idx) ==
    IF CanValue(prog, s)
    THEN LET val == peek_value(prog, s)
         IN  IF val.t = "Struct" /\ InRange(val.v, idx)
             THEN Push(Pop(s), Ref(At(val.v, idx)))
             ELSE Fail(Pop(s))
    ELSE Fail(s)

o_get_index(prog, s) ==
    IF CanValue(prog, s)
    THEN LET target == peek_value(prog, s)
             s1 == Pop(s)
         IN  IF CanValue(prog, s1)
             THEN LET index == peek_value(prog, s1)
                      s2 == Pop(s1)
                  IN  IF /\ target.t = "Struct"
                         /\ index.t = "Usize"
                         /\ InRange(target.v, index.v)
                      THEN Push(s2, Ref(At(target.v, index.v)))
                      ELSE Fail(s2)
             ELSE Fail(s1)
    ELSE Fail(s)

o_assign_index(prog, s) ==
    IF CanValue(prog, s)
    THEN LET target == peek_value(prog, s)
             s1 == Pop(s)
         IN  IF CanValue(prog, s1)
             THEN LET index == peek_value(prog, s1)
                      s2 == Pop(s1)
                  IN  IF CanValue(prog, s2)
                      THEN LET val == peek_value(prog, s2)
                               s3 == Pop(s2)
                           IN  IF /\ target.t = "Struct"
                                  /\ index.t = "Usize"
                                  /\ InRange(target.v, index.v)
                               THEN StructSet(s3, target.v, index.v, val)
                               ELSE Fail(s3)
                      ELSE Fail(s2)
             ELSE Fail(s1)
    ELSE Fail(s)

o_len(prog, s) ==
    IF CanValue(prog, s)
    THEN LET x == peek_value(prog, s)
         IN  IF x.t = "Struct"
             THEN Push(Pop(s), Owned(Usize(Len(x.v))))
             ELSE Fail(Pop(s))
    ELSE Fail(s)

o_not(prog, s) ==
    IF CanValue(prog, s) /\ peek_value(prog, s).t = "Bool"
    THEN Push(Pop(s), Owned(Bool(~peek_value(prog, s).v)))
    ELSE Fail(s)

-----------------------------------------------------------------------------
(* Binary operators *)

IntKinds == {"I64", "U64", "Usize"}
ArithKinds == {"Add", "Sub", "Mul", "Div", "Rem", "Shl", "Shr"}
BitKinds == {"BitXor", "BitAnd", "BitOr"}
CmpKinds == {"Eq", "Ne", "Lt", "Le", "Gt", "Ge"}

\* wraparound in the (narrowed) width of the integer kind
WrapAs(t, n) ==
    IF t = "I64" THEN ((n + 2 ^ 15) % (2 ^ 16)) - 2 ^ 15 ELSE Wrap(n)

Compare(kind, l, r) ==
    CASE kind = "Eq" -> l = r
      [] kind = "Ne" -> l # r
      [] kind = "Lt" -> l < r
      [] kind = "Le" -> l <= r
      [] kind = "Gt" -> l > r
      [] kind = "Ge" -> l >= r

BoolNum(b) == IF b THEN 1 ELSE 0

Abs(n) == IF n < 0 THEN -n ELSE n
TruncDiv(l, r) ==
    LET q == Abs(l) \div Abs(r) IN IF (l < 0) # (r < 0) THEN -q ELSE q

RECURSIVE Bitwise(_, _, _, _)
\* bit by bit over n bits of the two's-complement patterns a and b
Bitwise(kind, a, b, n) ==
    IF n = 0 THEN 0
    ELSE LET x == a % 2
             y == b % 2
             z == CASE kind = "BitAnd" -> IF x = 1 /\ y = 1 THEN 1 ELSE 0
                    [] kind = "BitOr" -> IF x = 1 \/ y = 1 THEN 1 ELSE 0
                    [] OTHER -> IF x # y THEN 1 ELSE 0
         IN  z + 2 * Bitwise(kind, a \div 2, b \div 2, n - 1)

\* the operator does not panic on the operands: kinds match, no division by
\* zero (nor MIN / -1), no arithmetic or shift on booleans
BinopDefined(kind, left, right) ==
    /\ left.t = right.t
    /\ \/ /\ left.t \in IntKinds
          /\ kind \in ArithKinds \cup BitKinds \cup CmpKinds
          /\ kind \in {"Div", "Rem"} =>
                right.v # 0 /\ ~(left.v = -(2 ^ 15) /\ right.v = -1)
       \/ /\ left.t = "Bool"
          /\ kind \in CmpKinds \cup BitKinds

int_binops(t, kind, l, r) ==
    CASE kind = "Add" -> [t |-> t, v |-> WrapAs(t, l + r)]
      [] kind = "Sub" -> [t |-> t, v |-> WrapAs(t, l - r)]
      [] kind = "Mul" -> [t |-> t, v |-> WrapAs(t, l * r)]
      [] kind = "Div" -> [t |-> t, v |-> TruncDiv(l, r)]
      [] kind = "Rem" -> [t |-> t, v |-> l - r * TruncDiv(l, r)]
      [] kind \in BitKinds ->
            [t |-> t, v |-> WrapAs(t, Bitwise(kind, Wrap(l), Wrap(r), 16))]
      [] kind = "Shl" -> [t |-> t, v |-> WrapAs(t, l * 2 ^ (r % 16))]
      [] kind = "Shr" -> [t |-> t, v |-> l \div (2 ^ (r % 16))]
      [] OTHER -> Bool(Compare(kind, l, r))

bool_binops(kind, l, r) ==
    CASE kind = "BitOr" -> Bool(l \/ r)
      [] kind = "BitXor" -> Bool(l # r)
      [] kind = "BitAnd" -> Bool(l /\ r)
      [] OTHER -> Bool(Compare(kind, BoolNum(l), BoolNum(r)))

BinopValue(kind, left, right) ==
    IF left.t = "Bool"
    THEN bool_binops(kind, left.v, right.v)
    ELSE int_binops(left.t, kind, left.v, right.v)

\* _do_binop: [s |-> the state after the two pops, val |-> the result]
do_binop(prog, s, kind) ==
    IF CanValue(prog, s)
    THEN LET right == peek_value(prog, s)
             s1 == Pop(s)
         IN  IF CanValue(prog, s1)
             THEN LET left == peek_value(prog, s1)
                      s2 == Pop(s1)
                  IN  IF BinopDefined(kind, left, right)
                      THEN [s |-> s2, val |-> BinopValue(kind, left, right)]
                      ELSE [s |-> Fail(s2), val |-> Null]
             ELSE [s |-> Fail(s1), val |-> Null]
    ELSE [s |-> Fail(s), val |-> Null]

o_binop(prog, s, kind) ==
    LET r == do_binop(prog, s, kind)
    IN  IF r.s.ok THEN Push(r.s, Owned(r.val)) ELSE r.s

\* the "checked" form never checks: (value, false)
o_checked_binop(prog, s, kind) ==
    LET r == do_binop(prog, s, kind)
        cells == FreshCells(r.s.heap, 2)
    IN  IF r.s.ok
        THEN [r.s EXCEPT !.heap = @ \o <<r.val, Bool(FALSE)>>,
                         !.stack = Append(@, Owned(StructV(cells)))]
        ELSE r.s

-----------------------------------------------------------------------------
(* Arrays *)

RECURSIVE ArrayFill(_, _, _, _)
\* o_array's loop: idx from size-1 down to 0, one pop_value each
ArrayFill(prog, s, cells, idx) ==
    IF idx < 0 THEN s
    ELSE IF CanValue(prog, s)
         THEN ArrayFill(prog, StructSet(Pop(s), cells, idx, peek_value(prog, s)),
                        cells, idx - 1)
         ELSE Fail(s)

o_array(prog, s, size) ==
    LET cells == FreshCells(s.heap, size)
        s1 == ArrayFill(prog, [s EXCEPT !.heap = AllocNull(@, size)], cells, size - 1)
    IN  IF s1.ok THEN Push(s1, Owned(StructV(cells))) ELSE s1

o_repeat(prog, s, size) ==
    IF CanValue(prog, s)
    THEN LET val == peek_value(prog, s)
             cells == FreshCells(s.heap, size)
         IN  [Pop(s) EXCEPT !.heap = @ \o [i \in 1..size |-> val],
                            !.stack = Append(SubSeq(s.stack, 1, Len(s.stack) - 1),
                                             Owned(StructV(cells)))]
    ELSE Fail(s)

-----------------------------------------------------------------------------
(* Calls.  A function of the program is [nargs, nlocals, code]: the tuple   *)
(* fields .0, .1 and .2 of the source.                                      *)

RECURSIVE CallArgsUp(_, _, _, _)
CallArgsUp(s, locals, i, last) ==
    IF i > last THEN [s |-> s, locals |-> locals]
    ELSE IF HasTop(s) /\ InRange(locals, i)
         THEN IF Top(s).k = "Ref"
              THEN CallArgsUp(Pop(s), [locals EXCEPT ![i + 1] = Top(s).cell], i + 1, last)
              ELSE CallArgsUp([Pop(s) EXCEPT !.heap = Append(@, Top(s).val)],
                              [locals EXCEPT ![i + 1] = Len(s.heap)], i + 1, last)
         ELSE [s |-> Fail(s), locals |-> locals]

\* mutant: the top of the stack goes to local 0, the next to local 1, ...
CallArgs_top_first(s, locals, idx) == CallArgsUp(s, locals, 0, idx)

RECURSIVE CallArgs(_, _, _)
\* o_call's loop: idx from func.0 - 1 down to 0; locals[idx] becomes the
\* popped entry's cell (into_cell: a fresh cell for an owned value)
CallArgs(s, locals, idx) ==
    IF idx < 0 THEN [s |-> s, locals |-> locals]
    ELSE IF HasTop(s) /\ InRange(locals, idx)
         THEN IF Top(s).k = "Ref"
              THEN CallArgs(Pop(s), [locals EXCEPT ![idx + 1] = Top(s).cell], idx - 1)
              ELSE CallArgs([Pop(s) EXCEPT !.heap = Append(@, Top(s).val)],
                            [locals EXCEPT ![idx + 1] = Len(s.heap)], idx - 1)
         ELSE [s |-> Fail(s), locals |-> locals]

\* [s |-> state, func |-> the callee]
o_call(prog, s, cur_func, cur_pc) ==
    IF HasTop(s) /\ into_owned(s.heap, Top(s)).val.t = "Func"
    THEN LET idx == into_owned(s.heap, Top(s)).val.v
             s1 == Pop(s)
         IN  IF InRange(prog, idx)
             THEN LET func == At(prog, idx)
                      s2 == [s1 EXCEPT !.heap = AllocNull(@, func.nlocals)]
                      r == CallArgs(s2, FreshCells(s1.heap, func.nlocals), func.nargs - 1)
                  IN  IF r.s.ok
                      THEN [s |-> [r.s EXCEPT !.frames = Append(@,
                                      [locals |-> r.locals,
                                       return_addr |-> ReturnTo(cur_func, cur_pc)])],
                            func |-> idx]
                      ELSE [s |-> r.s, func |-> idx]
             ELSE [s |-> Fail(s1), func |-> idx]
    ELSE [s |-> Fail(s), func |-> 0]

o_load_static(prog, s, static_idx, cur_func, cur_pc) ==
    IF InRange(prog, static_idx)
    THEN [s EXCEPT !.frames = Append(@, [locals |-> <<>>,
                                         return_addr |-> ReturnTo(cur_func, cur_pc)])]
    ELSE Fail(s)

\* [s |-> state, ret |-> the popped frame's return address, or none]
o_return(s) ==
    IF HasFrame(s)
    THEN [s |-> [s EXCEPT !.frames = SubSeq(@, 1, Len(@) - 1)],
          ret |-> active_frame(s).return_addr]
    ELSE [s |-> s, ret |-> NoReturn]

-----------------------------------------------------------------------------
(* Interpreter::dispatch and the opcodes run_trace shares with it *)

DNext == [k |-> "Next", func |-> 0, pc |-> 0]
DJump(p) == [k |-> "Jump", func |-> 0, pc |-> p]
DCall(f, p) == [k |-> "Call", func |-> f, pc |-> p]
DStop == [k |-> "Stop", func |-> 0, pc |-> 0]

SimpleOps == {"ConstValue", "Tuple", "TupleInit", "TupleGet", "TupleSet",
              "Unsize", "Use", "Ref", "Deref", "Load", "Store", "GetIndex",
              "AssignIndex", "Array", "Repeat", "Len", "BinOp",
              "CheckedBinOp", "Not", "Noop"}

\* the arms that dispatch and run_trace have in common: the new state
SimpleOp(prog, s, oc) ==
    CASE oc.op = "ConstValue" -> Push(s, Owned(oc.val))
      [] oc.op = "Tuple" -> o_tuple(s, oc.n)
      [] oc.op = "TupleInit" -> o_tuple_init(prog, s, oc.n)
      [] oc.op = "TupleGet" -> o_tuple_get(prog, s, oc.n)
      [] oc.op = "TupleSet" -> o_tuple_set(prog, s, oc.n)
      [] oc.op \in {"Unsize", "Use"} -> o_use(s)
      [] oc.op = "Ref" -> o_ref(s)
      [] oc.op = "Deref" -> o_deref(s)
      [] oc.op = "Load" -> o_load(s, oc.n)
      [] oc.op = "Store" -> o_store(s, oc.n)
      [] oc.op = "GetIndex" -> o_get_index(prog, s)
      [] oc.op = "AssignIndex" -> o_assign_index(prog, s)
      [] oc.op = "Array" -> o_array(prog, s, oc.n)
      [] oc.op = "Repeat" -> o_repeat(prog, s, oc.n)
      [] oc.op = "Len" -> o_len(prog, s)
      [] oc.op = "BinOp" -> o_binop(prog, s, oc.kind)
      [] oc.op = "CheckedBinOp" -> o_checked_binop(prog, s, oc.kind)
      [] oc.op = "Not" -> o_not(prog, s)
      [] oc.op = "Noop" -> s

\* SkipIf / JumpBackIf: pop a boolean, [s, taken]
PopBranch(prog, s) ==
    IF CanValue(prog, s) /\ peek_value(prog, s).t = "Bool"
    THEN [s |-> Pop(s), taken |-> peek_value(prog, s).v]
    ELSE [s |-> Fail(s), taken |-> FALSE]

\* a jump target below index 0 overflows usize: the run aborts
JumpTo(s, target) ==
    IF target >= 0 THEN [s |-> s, r |-> DJump(target)] ELSE [s |-> Fail(s), r |-> DNext]

\* dispatch(opcode, pos): [s |-> the new state, r |-> the DispatchResult]
dispatch(prog, s, oc, pos) ==
    CASE oc.op \in SimpleOps -> [s |-> SimpleOp(prog, s, oc), r |-> DNext]
      [] oc.op = "Call" ->
            LET c == o_call(prog, s, pos.func, pos.pc)
            IN  [s |-> c.s, r |-> DCall(c.func, 0)]
      [] oc.op = "Static" ->
            [s |-> o_load_static(prog, s, oc.n, pos.func, pos.pc),
             r |-> DCall(oc.n, 0)]
      [] oc.op = "Return" ->
            LET c == o_return(s)
            IN  IF c.ret.some
                THEN [s |-> c.s, r |-> DCall(c.ret.func, c.ret.pc)]
                ELSE [s |-> c.s, r |-> DStop]
      [] oc.op = "Skip" -> JumpTo(s, pos.pc + oc.n)
      [] oc.op = "JumpBack" -> JumpTo(s, pos.pc - oc.n)
      [] oc.op = "SkipIf" ->
            LET b == PopBranch(prog, s)
            IN  IF b.s.ok /\ b.taken
                THEN JumpTo(b.s, pos.pc + oc.n)
                ELSE [s |-> b.s, r |-> DNext]
      [] oc.op = "JumpBackIf" ->
            LET b == PopBranch(prog, s)
            IN  IF b.s.ok /\ b.taken
                THEN JumpTo(b.s, pos.pc - oc.n)
                ELSE [s |-> b.s, r |-> DNext]
      \* Panic, Neg and every opcode without an arm (Guard, Pop, ...)
      [] OTHER -> [s |-> Fail(s), r |-> DNext]

-----------------------------------------------------------------------------
(* Tracer.  counter and traces are maps: functions whose domain is the set *)
(* of keys present.                                                         *)

HOT_LOOP_THRESHOLD == 2

EmptyMap == [k \in {} |-> 0]
NoActive == [some |-> FALSE, buf |-> <<>>]
SomeActive(buf) == [some |-> TRUE, buf |-> buf]

\* #[derive(Default)]
NewTracer ==
    [counter |-> EmptyMap, traces |-> EmptyMap, loop_start |-> 0,
     seen_jump_targets |-> {}, active |-> NoActive]

RTrace(t) == [k |-> "Trace", trace |-> t]
RStartTrace == [k |-> "StartTrace", trace |-> <<>>]
RNone == [k |-> "None", trace |-> <<>>]
RPanic == [k |-> "Panic", trace |-> <<>>]

\* counter.entry(key).or_insert(0) incremented
Bumped(T, key) == IF key \in DOMAIN T.counter THEN T.counter[key] + 1 ELSE 1

\* mutant: hot already when the count reaches the threshold
IsHot_at_threshold(count) == count >= HOT_LOOP_THRESHOLD

IsHot(count) == count > HOT_LOOP_THRESHOLD

\* mutant: counts the visit before looking for a cached trace
handle_mergepoint_counting(T, key) ==
    LET count == Bumped(T, key)
        T1 == [T EXCEPT !.counter = (key :> count) @@ @]
    IN  IF key \in DOMAIN T.traces
        THEN [T |-> T1, r |-> RTrace(T.traces[key])]
        ELSE IF IsHot(count)
        THEN [T |-> [T EXCEPT !.active = SomeActive(<<>>),
                              !.counter = EmptyMap,
                              !.loop_start = key],
              r |-> RStartTrace]
        ELSE [T |-> T1, r |-> RNone]

\* mutant: counts visits, and starts a recording, while one is active
handle_mergepoint_nested(T, key) ==
    IF key \in DOMAIN T.traces
    THEN [T |-> T, r |-> RTrace(T.traces[key])]
    ELSE LET count == Bumped(T, key)
         IN  IF IsHot(count)
             THEN [T |-> [T EXCEPT !.active = SomeActive(<<>>),
                                   !.counter = EmptyMap,
                                   !.loop_start = key],
                   r |-> RStartTrace]
             ELSE [T |-> [T EXCEPT !.counter = (key :> count) @@ @], r |-> RNone]

\* handle_mergepoint(key): [T |-> the tracer after the call, r |-> the result]
handle_mergepoint(T, key) ==
    IF key \in DOMAIN T.traces
    THEN [T |-> T, r |-> RTrace(T.traces[key])]
    ELSE IF ~T.active.some
    THEN LET count == Bumped(T, key)
         IN  IF IsHot(count)
             THEN [T |-> [T EXCEPT !.active = SomeActive(<<>>),
                                   !.counter = EmptyMap,
                                   !.loop_start = key],
                   r |-> RStartTrace]
             ELSE [T |-> [T EXCEPT !.counter = (key :> count) @@ @], r |-> RNone]
    ELSE IF key = T.loop_start
    THEN [T |-> T, r |-> RPanic]      \* panic!("doesn't get called anymore")
    ELSE [T |-> T, r |-> RNone]

side_trace(T) == [T EXCEPT !.active = SomeActive(<<>>)]

CanFinish(T) == T.active.some

\* mutant: the cache holds the newest trace only
finish_trace_evicting(T, key) ==
    [T EXCEPT !.active = NoActive,
              !.seen_jump_targets = {},
              !.traces = (key :> T.active.buf)]

\* mutant: the buffer is cached and the recording goes on
finish_trace_recording_on(T, key) ==
    [T EXCEPT !.seen_jump_targets = {},
              !.traces = (key :> T.active.buf) @@ @]

\* mutant: the finished buffer is dropped instead of cached
finish_trace_discarding(T, key) ==
    [T EXCEPT !.active = NoActive,
              !.seen_jump_targets = {}]

finish_trace(T, key) ==
    [T EXCEPT !.active = NoActive,
              !.seen_jump_targets = {},
              !.traces = (key :> T.active.buf) @@ @]

jump_target(T, target) == [T EXCEPT !.seen_jump_targets = @ \cup {target}]

\* trace_opcode panics: no recording, or a branch without a boolean on top
CanTraceOpcode(T, s, oc) ==
    /\ IsBranch(oc) => HasTop(s) /\ into_owned(s.heap, Top(s)).val.t = "Bool"
    /\ IsJump(oc) \/ T.active.some

\* mutant: the guard expects the outcome opposite to the one observed
BranchGuard_negated(s, pos) == GuardOp(~into_owned(s.heap, Top(s)).val.v, pos)

\* the opcode trace_opcode appends for a conditional branch
BranchGuard(s, pos) == GuardOp(into_owned(s.heap, Top(s)).val.v, pos)

trace_opcode(T, s, oc, pos) ==
    IF IsJump(oc) THEN T
    ELSE IF IsBranch(oc)
         THEN [T EXCEPT !.active.buf = Append(@, BranchGuard(s, pos))]
         ELSE [T EXCEPT !.active.buf = Append(@, oc)]

-----------------------------------------------------------------------------
(* The counter client: the embedding program, and its interpreter loop as  *)
(* the engine sees it (this::PROGRAM, this::IDX).                          *)

DEC == 0
REP == 1
INC == 2

CounterProgram == <<DEC, REP, INC, INC, INC, INC, INC, DEC, REP, INC>>
DecRep == <<DEC, REP>>

\* main halts when pc reaches the end of its program (the literal 10)
HaltIndex(up) == Len(up)

\* the bytecode of main's loop; locals: 1 program, 2 cell, 3 pc, 4 opcode
LoopCode(halt) ==
    << Op("Noop"),                                                    \*  0 loop header
       OpN("Load", 3), ConstValue(Usize(halt)), BinOp("Ge"),          \*  1 pc >= halt
       OpN("SkipIf", 41),                                             \*  4 -> 45 break
       OpN("Load", 3), OpN("Load", 1), Op("GetIndex"), Op("Use"),     \*  5 program[pc]
       OpN("Store", 4),                                               \*  9
       OpN("Load", 4), ConstValue(Usize(DEC)), BinOp("Ne"),           \* 10 opcode == DEC
       OpN("SkipIf", 6),                                              \* 13 -> 19
       OpN("Load", 2), ConstValue(Usize(1)), BinOp("Sub"),            \* 14 cell -= 1
       OpN("Store", 2),                                               \* 17
       OpN("Skip", 22),                                               \* 18 -> 40
       OpN("Load", 4), ConstValue(Usize(REP)), BinOp("Ne"),           \* 19 opcode == REP
       OpN("SkipIf", 10),                                             \* 22 -> 32
       OpN("Load", 2), ConstValue(Usize(0)), BinOp("Le"),             \* 23 && cell > 0
       OpN("SkipIf", 6),                                              \* 26 -> 32
       OpN("Load", 3), ConstValue(Usize(1)), BinOp("Sub"),            \* 27 pc -= 1
       OpN("Store", 3),                                               \* 30
       OpN("JumpBack", 31),                                           \* 31 continue
       OpN("Load", 4), ConstValue(Usize(INC)), BinOp("Ne"),           \* 32 opcode == INC
       OpN("SkipIf", 5),                                              \* 35 -> 40
       OpN("Load", 2), ConstValue(Usize(1)), BinOp("Add"),            \* 36 cell += 1
       OpN("Store", 2),                                               \* 39
       OpN("Load", 3), ConstValue(Usize(1)), BinOp("Add"),            \* 40 pc += 1
       OpN("Store", 3),                                               \* 43
       OpN("JumpBack", 44),                                           \* 44 loop
       Op("Return") >>                                                \* 45 after the loop

PROGRAM(up) == << [nargs |-> 0, nlocals |-> 5, code |-> LoopCode(HaltIndex(up))] >>

\* the merge point: (function index, opcode index)
IDX == IP(0, 1)

\* one iteration of main's loop body, after merge_point: [cell, pc, done]
MainStep(up, c, p) ==
    IF p >= HaltIndex(up) THEN [cell |-> c, pc |-> p, done |-> TRUE]
    ELSE LET opcode == At(up, p)
         IN  IF opcode = DEC THEN [cell |-> Wrap(c - 1), pc |-> p + 1, done |-> FALSE]
             ELSE IF opcode = REP /\ c > 0 THEN [cell |-> c, pc |-> p - 1, done |-> FALSE]
             ELSE IF opcode = INC THEN [cell |-> Wrap(c + 1), pc |-> p + 1, done |-> FALSE]
             ELSE [cell |-> c, pc |-> p + 1, done |-> FALSE]

-----------------------------------------------------------------------------
(* Driver::merge_point *)

\* the frame merge_point seeds with the embedding program's state:
\* R_Struct::with_size(len) filled with the program, CallFrame::new(None, func.1)
SeedFrame(prog, fn_idx, up, c, p) ==
    LET n == Len(up)
        nl == At(prog, fn_idx).nlocals
        base == [i \in 1..n |-> Usize(up[i])] \o [i \in 1..nl |-> Null]
        locals == [i \in 1..nl |-> n + i - 1]
        s0 == [stack |-> <<>>, heap |-> base, ok |-> TRUE,
               frames |-> << [locals |-> locals, return_addr |-> NoReturn] >>]
    IN  IF nl >= 4
        THEN [s0 EXCEPT !.heap[At(locals, 1) + 1] = StructV([i \in 1..n |-> i - 1]),
                        !.heap[At(locals, 2) + 1] = Usize(c),
                        !.heap[At(locals, 3) + 1] = Usize(p)]
        ELSE Fail(s0)

\* "retrieve state": [ok, cell, pc] read from stack_frames[0].locals[2], [3]
ReadBack(s, c) ==
    IF /\ s.ok
       /\ Len(s.frames) > 0
       /\ Len(s.frames[1].locals) >= 4
       /\ s.heap[At(s.frames[1].locals, 3) + 1].t = "Usize"
    THEN LET boxed_cell == s.heap[At(s.frames[1].locals, 2) + 1]
         IN  [ok |-> TRUE,
              cell |-> IF boxed_cell.t = "Usize" THEN boxed_cell.v ELSE c,
              pc |-> s.heap[At(s.frames[1].locals, 3) + 1].v]
    ELSE [ok |-> FALSE, cell |-> c, pc |-> 0]

-----------------------------------------------------------------------------
(* One turn of the loops of Interpreter::trace, ::blackhole and ::run_trace *)

HasCode(prog, p) == InRange(prog, p.func) /\ InRange(At(prog, p.func).code, p.pc)
CodeAt(prog, p) == At(At(prog, p.func).code, p.pc)

\* program[func_pointer].2[pc].clone(); NoCode stands for the failed index check
NoCode == Op("NoCode")
Fetch(prog, p) == IF HasCode(prog, p) THEN CodeAt(prog, p) ELSE NoCode

\* mutant: no jump ever leaves the loop
LeavesLoop_never(new_pc, start_pc) == FALSE

\* mutant: a jump to the recovery start itself leaves too
LeavesLoop_inclusive(new_pc, start_pc) == new_pc <= start_pc

\* a taken jump leaves the loop when its target is below the start index
LeavesLoop(new_pc, start_pc) == new_pc < start_pc

\* the match on the DispatchResult, common to trace and blackhole:
\* [ip |-> the next position, out |-> "run", "return" or "panic"]
AfterDispatch(d, p, start_pc) ==
    IF ~d.s.ok THEN [ip |-> p, out |-> "panic"]
    ELSE CASE d.r.k = "Next" -> [ip |-> IP(p.func, p.pc + 1), out |-> "run"]
           [] d.r.k = "Jump" ->
                IF LeavesLoop(d.r.pc, start_pc)
                THEN [ip |-> p, out |-> "return"]
                ELSE [ip |-> IP(p.func, d.r.pc), out |-> "run"]
           [] d.r.k = "Call" -> [ip |-> IP(d.r.func, d.r.pc), out |-> "run"]
           [] d.r.k = "Stop" -> [ip |-> p, out |-> "panic"]    \* panic!("STOPPED")

\* trace: record the opcode, then dispatch it
\* oc is the opcode fetched at p
trace_step(prog, T, s, oc, p, start_ip) ==
    IF oc # NoCode /\ CanTraceOpcode(T, s, oc)
    THEN LET d == dispatch(prog, s, oc, p)
             a == AfterDispatch(d, p, start_ip.pc)
         IN  [T |-> trace_opcode(T, s, oc, p), s |-> d.s, ip |-> a.ip, out |-> a.out]
    ELSE [T |-> T, s |-> Fail(s), ip |-> p, out |-> "panic"]

\* blackhole leaves before the opcode at pc when pc is below the stop index
BlackholeBreak(p, start_ip, stop_ip) == start_ip.func = stop_ip.func /\ p.pc < stop_ip.pc

\* oc is the opcode fetched at p
blackhole_step(prog, s, oc, p, start_ip, stop_ip) ==
    IF oc # NoCode
    THEN IF BlackholeBreak(p, start_ip, stop_ip)
         THEN [s |-> s, ip |-> p, out |-> "return"]
         ELSE LET d == dispatch(prog, s, oc, p)
                  a == AfterDispatch(d, p, start_ip.pc)
              IN  [s |-> d.s, ip |-> a.ip, out |-> a.out]
    ELSE [s |-> Fail(s), ip |-> p, out |-> "panic"]

\* mutant: recovery resumes after the branch instead of at it
BlackholeEntry_after_branch(start_ip, stop_ip) == IP(stop_ip.func, start_ip.pc + 1)

\* where blackhole starts: pc from start, func_pointer from stop
BlackholeEntry(start_ip, stop_ip) == IP(stop_ip.func, start_ip.pc)

\* mutant: a guard that never fails
guard_arm_unchecked(prog, s, guard) ==
    IF CanValue(prog, s) /\ peek_value(prog, s).t = "Bool"
    THEN [s |-> Pop(s), out |-> "run"]
    ELSE [s |-> Fail(s), out |-> "panic"]

\* mutant: a failed guard pops the boolean as a matching one does
guard_arm_popping(prog, s, guard) ==
    IF CanValue(prog, s) /\ peek_value(prog, s).t = "Bool"
    THEN IF peek_value(prog, s).v = guard.expected
         THEN [s |-> Pop(s), out |-> "run"]
         ELSE [s |-> Pop(s), out |-> "guard"]
    ELSE [s |-> Fail(s), out |-> "panic"]

\* the Guard arm of run_trace: "run" pops the boolean, "guard" leaves it
guard_arm(prog, s, guard) ==
    IF CanValue(prog, s) /\ peek_value(prog, s).t = "Bool"
    THEN IF peek_value(prog, s).v = guard.expected
         THEN [s |-> Pop(s), out |-> "run"]
         ELSE [s |-> s, out |-> "guard"]
    ELSE [s |-> Fail(s), out |-> "panic"]

\* mutant: the program counter is not wrapped
WrapPc_running_on(trace, tpc0) == tpc0

\* the program counter run_trace reads its opcode at: past the end wraps to 0
WrapPc(trace, tpc0) == IF tpc0 >= Len(trace) THEN 0 ELSE tpc0

\* trace[pc].clone()
FetchTrace(trace, tpc0) ==
    IF InRange(trace, WrapPc(trace, tpc0)) THEN At(trace, WrapPc(trace, tpc0)) ELSE NoCode

\* one turn of run_trace's loop: [s, tpc, out |-> "run", "guard" or "panic"];
\* oc is the opcode fetched at the wrapped pc; on "guard" it is returned
run_trace_step(prog, s, oc, trace, tpc0) ==
    LET p0 == WrapPc(trace, tpc0)
    IN  IF oc = NoCode THEN [s |-> Fail(s), tpc |-> p0, out |-> "panic"]
        ELSE     CASE oc.op = "Guard" ->
                        LET g == guard_arm(prog, s, oc)
                        IN  [s |-> g.s, out |-> g.out,
                             tpc |-> IF g.out = "run" THEN p0 + 1 ELSE p0]
                   [] oc.op \in SimpleOps ->
                        LET s1 == SimpleOp(prog, s, oc)
                        IN  [s |-> s1, tpc |-> p0 + 1,
                             out |-> IF s1.ok THEN "run" ELSE "panic"]
                   [] oc.op = "Skip" -> [s |-> s, tpc |-> p0 + oc.n, out |-> "run"]
                   [] oc.op = "JumpBack" ->
                        IF p0 - oc.n >= 0
                        THEN [s |-> s, tpc |-> p0 - oc.n, out |-> "run"]
                        ELSE [s |-> Fail(s), tpc |-> p0, out |-> "panic"]
                   [] oc.op \in {"SkipIf", "JumpBackIf"} ->
                        LET b == PopBranch(prog, s)
                            t == IF ~b.taken THEN p0 + 1
                                 ELSE IF oc.op = "SkipIf" THEN p0 + oc.n ELSE p0 - oc.n
                        IN  IF b.s.ok /\ t >= 0
                            THEN [s |-> b.s, tpc |-> t, out |-> "run"]
                            ELSE [s |-> Fail(b.s), tpc |-> p0, out |-> "panic"]
                   \* Panic, Neg, and Call, Static, Return: no arm
                   [] OTHER -> [s |-> Fail(s), tpc |-> p0, out |-> "panic"]

-----------------------------------------------------------------------------
(* Observers.  h records, for the running merge_point call, its arguments, *)
(* the decision taken, the guard failure, the completed passes of the      *)
(* trace and the opcodes given to the recorder; and for the run, the cell  *)
(* main started with, how often main left its loop and how often each key  *)
(* was visited (kept only while no key was visited more than               *)
(* HOT_LOOP_THRESHOLD times).                                              *)

NewHistory ==
    [c0 |-> 0, e_cell |-> 0, e_pc |-> 0, kind |-> "", failed |-> FALSE, passes |-> 0,
     log |-> <<>>, halts |-> 0, visits |-> EmptyMap, cold |-> TRUE]

Visited(hh, key) ==
    LET n == IF key \in DOMAIN hh.visits THEN hh.visits[key] + 1 ELSE 1
    IN  IF hh.cold /\ n <= HOT_LOOP_THRESHOLD
        THEN [hh EXCEPT !.visits = (key :> n) @@ @]
        ELSE [hh EXCEPT !.visits = EmptyMap, !.cold = FALSE]

Entered(hh, key, c, kind) ==
    [Visited(hh, key) EXCEPT !.e_cell = c, !.e_pc = key, !.kind = kind,
                             !.failed = FALSE, !.passes = 0, !.log = <<>>]

\* what the recorder is shown: the opcode, its position and, for a
\* conditional branch, the boolean on top of the operand stack
LogEntry(s, oc, p) ==
    [oc |-> oc, pos |-> p,
     top |-> IF IsBranch(oc) /\ HasTop(s) /\ into_owned(s.heap, Top(s)).val.t = "Bool"
             THEN into_owned(s.heap, Top(s)).val.v ELSE FALSE]

-----------------------------------------------------------------------------
(* Actions *)

\* merge_point(program, IDX, user_program, p, &mut c) up to the interpreter run
MergePointEnter(p, c) ==
    \E hm \in {handle_mergepoint(tracer, p)} :
    \E frame \in {SeedFrame(PROGRAM(user_program), IDX.func, user_program, c, p)} :
        /\ tracer' = hm.T
        /\ res' = hm.r
        /\ h' = Entered(h, p, c, hm.r.k)
        /\ pc' = p
        /\ cell' = c
        /\ IF hm.r.k = "None"
           THEN /\ at' = "body"
                /\ UNCHANGED <<st, ip, start, tpc, cur_trace>>
           ELSE IF hm.r.k = "Panic" \/ ~frame.ok
           THEN /\ at' = "panic"
                /\ UNCHANGED <<st, ip, start, tpc, cur_trace>>
           ELSE IF hm.r.k = "StartTrace"
           THEN /\ at' = "trace"
                /\ st' = frame
                /\ ip' = IDX
                /\ start' = IDX
                /\ UNCHANGED <<tpc, cur_trace>>
           ELSE /\ at' = "run_trace"
                /\ st' = frame
                /\ tpc' = 0
                /\ cur_trace' = hm.r.trace
                /\ UNCHANGED <<ip, start>>

\* main, at the loop header: pc = my_driver.merge_point(..., pc, &mut cell)
MainMergePoint ==
    /\ at = "header"
    /\ MergePointEnter(pc, cell)
    /\ UNCHANGED user_program

\* main, after merge_point: the halt test and the embedding opcode
MainBody ==
    /\ at = "body"
    /\ LET m == MainStep(user_program, cell, pc)
       IN  /\ cell' = m.cell
           /\ pc' = m.pc
           /\ at' = IF m.done THEN "done" ELSE "header"
           /\ h' = [h EXCEPT !.halts = IF m.done THEN @ + 1 ELSE @]
    /\ UNCHANGED <<user_program, tracer, st, ip, start, tpc, cur_trace, res>>

\* merge_point returns: the state is read out of the frame
MergePointReturn(s) ==
    LET rb == ReadBack(s, cell)
    IN  IF rb.ok
        THEN at' = "body" /\ cell' = rb.cell /\ pc' = rb.pc
        ELSE at' = "panic" /\ UNCHANGED <<cell, pc>>

\* one opcode of the recording run; when trace returns, finish_trace(pc)
\* and the read-out follow
TraceStep ==
    /\ at = "trace"
    /\ \E prog \in {PROGRAM(user_program)} :
       \E oc \in {Fetch(prog, ip)} :
       \E t \in {trace_step(prog, tracer, st, oc, ip, start)} :
           /\ st' = t.s
           /\ ip' = t.ip
           /\ h' = IF oc # NoCode
                   THEN [h EXCEPT !.log = Append(@, LogEntry(st, oc, ip))]
                   ELSE h
           /\ CASE t.out = "run" ->
                     /\ tracer' = t.T
                     /\ UNCHANGED <<at, cell, pc>>
                [] t.out = "panic" ->
                     /\ tracer' = t.T
                     /\ at' = "panic"
                     /\ UNCHANGED <<cell, pc>>
                [] t.out = "return" ->
                     IF CanFinish(t.T)
                     THEN /\ tracer' = finish_trace(t.T, pc)
                          /\ MergePointReturn(t.s)
                     ELSE /\ tracer' = t.T
                          /\ at' = "panic"
                          /\ UNCHANGED <<cell, pc>>
    /\ UNCHANGED <<user_program, start, tpc, cur_trace, res>>

\* one opcode of run_trace; a failed guard hands over to blackhole
RunTraceStep ==
    /\ at = "run_trace"
    /\ \E prog \in {PROGRAM(user_program)} :
       \E oc \in {FetchTrace(cur_trace, tpc)} :
       \E r \in {run_trace_step(prog, st, oc, cur_trace, tpc)} :
           /\ st' = r.s
           /\ tpc' = r.tpc
           /\ h' = [h EXCEPT !.passes = IF r.out = "run" /\ r.tpc >= Len(cur_trace)
                                        THEN @ + 1 ELSE @,
                             !.failed = (r.out = "guard")]
           /\ CASE r.out = "run" -> UNCHANGED <<at, ip, start>>
                [] r.out = "panic" -> at' = "panic" /\ UNCHANGED <<ip, start>>
                [] r.out = "guard" ->
                     /\ at' = "blackhole"
                     /\ start' = IP(IDX.func, oc.recovery.pc)
                     /\ ip' = BlackholeEntry(IP(IDX.func, oc.recovery.pc), IDX)
    /\ UNCHANGED <<user_program, cell, pc, tracer, cur_trace, res>>

\* one opcode of blackhole; when it returns, the read-out follows
BlackholeStep ==
    /\ at = "blackhole"
    /\ \E prog \in {PROGRAM(user_program)} :
       \E oc \in {Fetch(prog, ip)} :
       \E b \in {blackhole_step(prog, st, oc, ip, start, IDX)} :
           /\ st' = b.s
           /\ ip' = b.ip
           /\ CASE b.out = "run" -> UNCHANGED <<at, cell, pc>>
                [] b.out = "panic" -> at' = "panic" /\ UNCHANGED <<cell, pc>>
                [] b.out = "return" -> MergePointReturn(b.s)
    /\ UNCHANGED <<user_program, tracer, start, tpc, cur_trace, res, h>>

-----------------------------------------------------------------------------
(* The counter client: main drives the engine *)

UserPrograms == {CounterProgram, DecRep}

Init ==
    /\ user_program \in UserPrograms
    /\ cell \in 1..MaxCell
    /\ pc = 0
    /\ at = "header"
    /\ tracer = NewTracer
    /\ st = NewInterpreter
    /\ ip = IDX
    /\ start = IDX
    /\ tpc = 0
    /\ cur_trace = <<>>
    /\ res = RNone
    /\ h = [NewHistory EXCEPT !.c0 = cell]

Next ==
    \/ MainMergePoint
    \/ MainBody
    \/ TraceStep
    \/ RunTraceStep
    \/ BlackholeStep

Spec == Init /\ [][Next]_vars

\* main is one thread that runs on until it halts or panics
FairSpec == Spec /\ WF_vars(Next)

-----------------------------------------------------------------------------
(* The Driver called directly: any sequence of merge_point calls *)

DriverProgram == <<DEC, DEC, REP>>

\* a caller of merge_point, between two calls: any pc, any cell
DriverCall ==
    /\ at \in {"header", "body"}
    /\ \E p \in 0..MaxKey, c \in 0..MaxDirectCell : MergePointEnter(p, c)
    /\ UNCHANGED user_program

InitDriver ==
    /\ user_program = DriverProgram
    /\ cell = 0
    /\ pc = 0
    /\ at = "header"
    /\ tracer = NewTracer
    /\ st = NewInterpreter
    /\ ip = IDX
    /\ start = IDX
    /\ tpc = 0
    /\ cur_trace = <<>>
    /\ res = RNone
    /\ h = NewHistory

NextDriver ==
    \/ DriverCall
    \/ TraceStep
    \/ RunTraceStep
    \/ BlackholeStep

SpecDriver == InitDriver /\ [][NextDriver]_vars

-----------------------------------------------------------------------------
(* The Tracer called directly: any sequence of calls of its public methods. *)
(* h.kind names the method of the last call and h.e_pc its key.             *)

TracerKeys == 0..MaxTracerKey

\* the interpreter shown to trace_opcode: b on top of the operand stack
Showing(b) == Push(NewInterpreter, Owned(Bool(b)))

\* opcodes given to trace_opcode
DirectOps == {Op("Noop"), OpN("JumpBack", 1), OpN("Skip", 1), OpN("SkipIf", 1)}

Called(name, key) == [h EXCEPT !.kind = name, !.e_pc = key]

CallHandleMergepoint ==
    /\ at = "tracer"
    /\ \E key \in TracerKeys :
       \E hm \in {handle_mergepoint(tracer, key)} :
           /\ tracer' = hm.T
           /\ res' = hm.r
           /\ at' = IF hm.r.k = "Panic" THEN "panic" ELSE at
           /\ h' = Called("handle_mergepoint", key)
    /\ UNCHANGED <<user_program, cell, pc, st, ip, start, tpc, cur_trace>>

\* the opcodes held by the tracer, in the buffer and in the cached traces
Recordings(T) ==
    Len(T.active.buf)
    + Cardinality(UNION { {<<k, i>> : i \in 1..Len(T.traces[k])} : k \in DOMAIN T.traces })

CallTraceOpcode ==
    /\ at = "tracer"
    /\ Recordings(tracer) < MaxBuf
    /\ \E oc \in DirectOps, b \in BOOLEAN :
           /\ IF CanTraceOpcode(tracer, Showing(b), oc)
              THEN tracer' = trace_opcode(tracer, Showing(b), oc, IDX) /\ at' = at
              ELSE tracer' = tracer /\ at' = "panic"
           /\ h' = Called("trace_opcode", 0)
    /\ UNCHANGED <<user_program, cell, pc, st, ip, start, tpc, cur_trace, res>>

CallFinishTrace ==
    /\ at = "tracer"
    /\ \E key \in TracerKeys :
           /\ IF CanFinish(tracer)
              THEN tracer' = finish_trace(tracer, key) /\ at' = at
              ELSE tracer' = tracer /\ at' = "panic"
           /\ h' = Called("finish_trace", key)
    /\ UNCHANGED <<user_program, cell, pc, st, ip, start, tpc, cur_trace, res>>

CallSideTrace ==
    /\ at = "tracer"
    /\ tracer' = side_trace(tracer)
    /\ h' = Called("side_trace", 0)
    /\ UNCHANGED <<user_program, cell, pc, at, st, ip, start, tpc, cur_trace, res>>

CallJumpTarget ==
    /\ at = "tracer"
    /\ tracer' = jump_target(tracer, 0)
    /\ h' = Called("jump_target", 0)
    /\ UNCHANGED <<user_program, cell, pc, at, st, ip, start, tpc, cur_trace, res>>

InitTracer ==
    /\ user_program = DecRep
    /\ cell = 0
    /\ pc = 0
    /\ at = "tracer"
    /\ tracer = NewTracer
    /\ st = NewInterpreter
    /\ ip = IDX
    /\ start = IDX
    /\ tpc = 0
    /\ cur_trace = <<>>
    /\ res = RNone
    /\ h = NewHistory

NextTracer ==
    \/ CallHandleMergepoint
    \/ CallTraceOpcode
    \/ CallFinishTrace
    \/ CallSideTrace
    \/ CallJumpTarget

SpecTracer == InitTracer /\ [][NextTracer]_vars

-----------------------------------------------------------------------------
(* Properties of the Tracer (SpecTracer) *)

\* the step is a call handle_mergepoint(key)
IsHandleMergepoint(key) == h'.kind = "handle_mergepoint" /\ h'.e_pc = key

CountOf(T, key) == IF key \in DOMAIN T.counter THEN T.counter[key] ELSE 0

\* C6: with the tracer idle and no trace cached for K, handle_mergepoint(K)
\* returns StartTrace exactly when K's incremented count exceeds 2, and then
\* clears every counter, sets the loop key to K and makes the buffer present
\* and empty; otherwise it returns None and changes only K's counter, by one.
C6_HotLoopDetection ==
    [][\A K \in TracerKeys :
         (/\ IsHandleMergepoint(K)
          /\ ~tracer.active.some
          /\ K \notin DOMAIN tracer.traces)
         => IF CountOf(tracer, K) + 1 > 2
            THEN /\ res'.k = "StartTrace"
                 /\ DOMAIN tracer'.counter = {}
                 /\ tracer'.loop_start = K
                 /\ tracer'.active = [some |-> TRUE, buf |-> <<>>]
                 /\ tracer'.traces = tracer.traces
            ELSE /\ res'.k = "None"
                 /\ DOMAIN tracer'.counter = DOMAIN tracer.counter \cup {K}
                 /\ \A k \in DOMAIN tracer'.counter :
                       tracer'.counter[k] = CountOf(tracer, k) + (IF k = K THEN 1 ELSE 0)
                 /\ tracer'.active = tracer.active
                 /\ tracer'.loop_start = tracer.loop_start
                 /\ tracer'.traces = tracer.traces
                 /\ tracer'.seen_jump_targets = tracer.seen_jump_targets]_vars

\* a third visit has just started a recording
C6_Witness ==
    /\ at = "tracer"
    /\ h.kind = "handle_mergepoint"
    /\ res.k = "StartTrace"
    /\ tracer.loop_start = h.e_pc
    /\ tracer.active = [some |-> TRUE, buf |-> <<>>]
    /\ DOMAIN tracer.counter = {}

\* C7: while a recording is active, handle_mergepoint for a key other than
\* the loop key never returns StartTrace and leaves the buffer, the loop key
\* and the counters as they are; the recording stays the only one.
C7_NoNestedRecording ==
    [][\A K \in TracerKeys :
         (/\ IsHandleMergepoint(K)
          /\ tracer.active.some
          /\ K # tracer.loop_start)
         => /\ res'.k # "StartTrace"
            /\ tracer'.active = tracer.active
            /\ tracer'.loop_start = tracer.loop_start
            /\ tracer'.counter = tracer.counter]_vars

\* another key, already visited twice, was visited during a recording
C7_Witness ==
    /\ at = "tracer"
    /\ h.kind = "handle_mergepoint"
    /\ tracer.active.some
    /\ Len(tracer.active.buf) > 0
    /\ h.e_pc # tracer.loop_start
    /\ CountOf(tracer, h.e_pc) = 2
    /\ res.k = "None"

\* C8: with a trace cached for K, handle_mergepoint(K) returns that trace
\* and leaves the counters, the loop key and the buffer as they are, whatever
\* K's count and whether or not a recording is active.
C8_CachedTraceReturned ==
    [][\A K \in TracerKeys :
         (IsHandleMergepoint(K) /\ K \in DOMAIN tracer.traces)
         => /\ res' = [k |-> "Trace", trace |-> tracer.traces[K]]
            /\ tracer' = tracer]_vars

\* a cached trace was returned during a recording, for a key with a count
C8_Witness ==
    /\ at = "tracer"
    /\ h.kind = "handle_mergepoint"
    /\ res.k = "Trace"
    /\ h.e_pc \in DOMAIN tracer.traces
    /\ res.trace = tracer.traces[h.e_pc]
    /\ Len(res.trace) > 0
    /\ tracer.active.some
    /\ CountOf(tracer, h.e_pc) > 0

\* C9: with a recording active for loop key K (and no trace cached for K),
\* handle_mergepoint(K) closes the loop: the buffer becomes the cached trace
\* of K and the tracer is idle again.
C9_LoopClosed ==
    [][\A K \in TracerKeys :
         (/\ IsHandleMergepoint(K)
          /\ tracer.active.some
          /\ K = tracer.loop_start
          /\ K \notin DOMAIN tracer.traces)
         => /\ at' # "panic"
            /\ K \in DOMAIN tracer'.traces
            /\ tracer'.traces[K] = tracer.active.buf
            /\ ~tracer'.active.some]_vars

-----------------------------------------------------------------------------
(* Properties of Driver::merge_point (SpecDriver) *)

\* the element of a one-element set
Only(S) == CHOOSE x \in S : TRUE

\* the baseline interpreter alone: dispatch from position p up to the jump
\* that closes the loop (every other jump of the loop body goes forward)
RECURSIVE BaselineFrom(_, _, _)
BaselineFrom(prog, s, p) ==
    IF Fetch(prog, p) = NoCode THEN Fail(s)
    ELSE Only({ Only({ CASE a.out = "run" -> BaselineFrom(prog, d.s, a.ip)
                         [] a.out = "return" -> d.s
                         [] OTHER -> Fail(d.s)
                       : a \in {AfterDispatch(d, p, IDX.pc)} })
                : d \in {dispatch(prog, s, Fetch(prog, p), p)} })

\* n iterations of the loop by the baseline interpreter, from the merge point
RECURSIVE BaselineRun(_, _, _)
BaselineRun(prog, s, n) ==
    IF n = 0 \/ ~s.ok THEN s
    ELSE Only({ BaselineRun(prog, s1, n - 1) : s1 \in {BaselineFrom(prog, s, IDX)} })

\* the external state (cell, pc) after n baseline iterations from the
\* arguments of the running merge_point call
BaselineState(n) ==
    Only({ ReadBack(BaselineRun(prog, SeedFrame(prog, IDX.func, user_program,
                                                h.e_cell, h.e_pc), n), h.e_cell)
           : prog \in {PROGRAM(user_program)} })

\* C1: a merge_point call that replayed a cached trace and ended in a guard
\* failure returns, after blackhole recovery, the cell and the pc that the
\* baseline interpreter produces from the same cell and pc in the same number
\* of loop iterations (the completed passes of the trace and the recovered one).
C1_RecoveryMatchesBaseline ==
    (at = "body" /\ h.kind = "Trace" /\ h.failed)
    => \E b \in {BaselineState(h.passes + 1)} :
           /\ b.ok
           /\ cell = b.cell
           /\ pc = b.pc

\* a call returned after two full passes and a recovered third iteration
C1_Witness ==
    /\ at = "body"
    /\ h.kind = "Trace"
    /\ h.failed
    /\ h.passes = 2
    /\ cell # h.e_cell
    /\ pc # h.e_pc

\* C2: in a sequence of merge_point calls in which no key was visited more
\* than HOT_LOOP_THRESHOLD times, every call returns its pc argument, leaves
\* the cell as it was and no trace is cached or being recorded.
C2_ColdCallsAreIdentity ==
    (h.cold /\ h.kind # "")
    => /\ at = "body"
       /\ res.k = "None"
       /\ pc = h.e_pc
       /\ cell = h.e_cell
       /\ DOMAIN tracer.traces = {}
       /\ ~tracer.active.some

\* every key was visited HOT_LOOP_THRESHOLD times and the engine is still cold
C2_Witness ==
    /\ h.cold
    /\ at = "body"
    /\ DOMAIN h.visits = 0..MaxKey
    /\ \A k \in DOMAIN h.visits : h.visits[k] = HOT_LOOP_THRESHOLD
    /\ pc = h.e_pc
    /\ cell = h.e_cell

\* C5: after N passes of a replayed trace in which no guard failed, the cell
\* and pc held in the frame equal those after N iterations of the baseline
\* interpreter from the state the call started with.
C5_ReplayMatchesBaseline ==
    (at = "run_trace" /\ h.passes > 0 /\ tpc >= Len(cur_trace))
    => \E b \in {BaselineState(h.passes)} :
           /\ b.ok
           /\ ReadBack(st, h.e_cell) = b

\* two passes replayed without a guard failure, the cell and pc moved on
C5_Witness ==
    /\ at = "run_trace"
    /\ tpc >= Len(cur_trace)
    /\ h.passes = 2
    /\ ~h.failed
    /\ ReadBack(st, h.e_cell).ok
    /\ ReadBack(st, h.e_cell).pc # h.e_pc
    /\ ReadBack(st, h.e_cell).cell # h.e_cell

\* the recording transform: what the buffer holds for the opcodes shown to the recorder
RECURSIVE Recorded(_)
Recorded(log) ==
    IF log = <<>> THEN <<>>
    ELSE LET e == Head(log)
         IN  IF e.oc.op \in {"Skip", "JumpBack"} THEN Recorded(Tail(log))
             ELSE IF e.oc.op \in {"SkipIf", "JumpBackIf"}
                  THEN << [op |-> "Guard", expected |-> e.top, recovery |-> e.pos] >>
                       \o Recorded(Tail(log))
                  ELSE << e.oc >> \o Recorded(Tail(log))

\* C10: no cached trace holds a Skip, JumpBack, SkipIf or JumpBackIf; the
\* buffer, and the trace cached from it, is the sequence of executed opcodes
\* in execution order with every unconditional jump dropped and every
\* conditional branch replaced by one Guard that expects the boolean on top of
\* the operand stack before the branch ran and recovers at the branch's own
\* (function, opcode index).
C10_TraceShape ==
    /\ \A k \in DOMAIN tracer.traces : \A i \in 1..Len(tracer.traces[k]) :
           tracer.traces[k][i].op \notin {"Skip", "JumpBack", "SkipIf", "JumpBackIf"}
    /\ at = "trace" => tracer.active.buf = Recorded(h.log)
    /\ (at = "body" /\ h.kind = "StartTrace")
       => /\ h.e_pc \in DOMAIN tracer.traces
          /\ tracer.traces[h.e_pc] = Recorded(h.log)

\* a recording was cached whose run took a jump and branches of both outcomes
C10_Witness ==
    /\ at = "body"
    /\ h.kind = "StartTrace"
    /\ h.e_pc \in DOMAIN tracer.traces
    /\ \E i \in 1..Len(h.log) : h.log[i].oc.op = "JumpBack"
    /\ \E i, j \in 1..Len(tracer.traces[h.e_pc]) :
           /\ tracer.traces[h.e_pc][i].op = "Guard"
           /\ tracer.traces[h.e_pc][j].op = "Guard"
           /\ tracer.traces[h.e_pc][i].expected
           /\ ~tracer.traces[h.e_pc][j].expected
           /\ tracer.traces[h.e_pc][i].recovery.pc > IDX.pc
    /\ Len(tracer.traces[h.e_pc]) < Len(h.log)

-----------------------------------------------------------------------------
(* Properties of the counter client (Spec, FairSpec) *)

\* the cell main ends with when merge_point returns pc and changes nothing
RECURSIVE FinalCell(_, _, _)
FinalCell(up, c, p) ==
    IF MainStep(up, c, p).done THEN c
    ELSE FinalCell(up, MainStep(up, c, p).cell, MainStep(up, c, p).pc)

\* C3: for the program [DEC, REP, INC, INC, INC, INC, INC, DEC, REP, INC]
\* started at pc = 0, the run with the tracing engine does not abort and ends
\* with the cell value of the run in which merge_point returns pc unchanged.
C3_CounterFinalCell ==
    user_program = CounterProgram
    => /\ at # "panic"
       /\ at = "done" => cell = FinalCell(CounterProgram, h.c0, 0)

\* the run from cell = 10 has ended, after traces were recorded and replayed
C3_Witness ==
    /\ user_program = CounterProgram
    /\ at = "done"
    /\ h.c0 = 10
    /\ cell = FinalCell(CounterProgram, 10, 0)
    /\ Cardinality(DOMAIN tracer.traces) >= 2
    /\ h.kind = "None"

\* C4: the loop 'decrement, repeat while nonzero' reaches the halt index
\* exactly once and ends with cell = 0, whether traces were recorded and
\* replayed (cell started at 3 or more) or none was ever cached.
C4_DecRepHalts ==
    (user_program = DecRep) => <>[](at = "done" /\ cell = 0 /\ h.halts = 1)

\* the run from cell = 10 has ended with a trace cached
C4_Witness ==
    /\ user_program = DecRep
    /\ at = "done"
    /\ h.c0 = 10
    /\ cell = 0
    /\ h.halts = 1
    /\ DOMAIN tracer.traces # {}

\* the run from cell = 1 has ended and no trace was ever cached
C4_WitnessCold ==
    /\ user_program = DecRep
    /\ at = "done"
    /\ h.cold
    /\ cell = 0
    /\ DOMAIN tracer.traces = {}

-----------------------------------------------------------------------------
(* Properties of the Guard arm of run_trace (SpecDriver) *)

\* the branch at position p, run by the baseline interpreter on s, is taken
BranchTaken(prog, s, p) == dispatch(prog, s, Fetch(prog, p), p).r.k = "Jump"

\* C11: in run_trace a Guard whose expected value is the boolean on top of
\* the operand stack pops it and goes on with the next trace opcode; a Guard
\* whose expected value differs ends run_trace with the operand stack as it
\* was, and the branch at the guard's recovery pointer, run on that stack,
\* goes the way opposite to the recorded one.
C11_GuardArm ==
    [][(at = "run_trace" /\ FetchTrace(cur_trace, tpc).op = "Guard")
       => \E prog \in {PROGRAM(user_program)} :
          \E guard \in {FetchTrace(cur_trace, tpc)} :
              /\ HasTop(st)
              /\ peek_value(prog, st).t = "Bool"
              /\ IF peek_value(prog, st).v = guard.expected
                 THEN /\ at' = "run_trace"
                      /\ st' = Pop(st)
                      /\ tpc' = WrapPc(cur_trace, tpc) + 1
                 ELSE /\ at' = "blackhole"
                      /\ st' = st
                      /\ ip' = guard.recovery
                      /\ IsBranch(Fetch(prog, ip'))
                      /\ BranchTaken(prog, st', ip') = ~guard.expected]_vars

\* a guard has failed in the second pass, after guards that matched
C11_Witness ==
    /\ at = "blackhole"
    /\ h.failed
    /\ h.passes = 1
    /\ tpc > 0
    /\ ip = start
    /\ HasTop(st)
    /\ At(cur_trace, tpc).op = "Guard"
    /\ At(cur_trace, tpc).recovery = ip
    /\ At(cur_trace, 0).op # "Guard"

-----------------------------------------------------------------------------
(* Properties of a merge_point call as a whole (SpecDriver) *)

\* the cache T2 is the cache T1 with one trace added, under key
OneTraceAdded(T1, T2, key) ==
    /\ key \notin DOMAIN T1
    /\ DOMAIN T2 = DOMAIN T1 \cup {key}
    /\ \A k \in DOMAIN T1 : T2[k] = T1[k]

\* C12: a merge_point call does exactly one of record, replay and no-op, as
\* handle_mergepoint chose: a StartTrace call runs one recording and, when it
\* returns, has added exactly one trace, under the call's key; a Trace call
\* runs one replay and its recovery and adds none; a None call runs no
\* interpreter, adds none and returns its pc with the cell as it was.
C12_OneOfRecordReplayNoop ==
    [][/\ at \in {"header", "body"}
          => /\ res'.k \in {"None", "StartTrace", "Trace"}
             /\ tracer'.traces = tracer.traces
             /\ res'.k = "None"
                => at' = "body" /\ st' = st /\ pc' = h'.e_pc /\ cell' = h'.e_cell
             /\ res'.k = "StartTrace"
                => at' = "trace" /\ tracer'.active.some
                   /\ h'.e_pc \notin DOMAIN tracer.traces
             /\ res'.k = "Trace"
                => at' = "run_trace" /\ cur_trace' = tracer.traces[h'.e_pc]
                   /\ tracer' = tracer
       /\ at = "trace"
          => /\ res.k = "StartTrace"
             /\ at' \in {"trace", "body", "panic"}
             /\ IF at' = "body"
                THEN /\ OneTraceAdded(tracer.traces, tracer'.traces, h.e_pc)
                     /\ ~tracer'.active.some
                ELSE tracer'.traces = tracer.traces
       /\ at \in {"run_trace", "blackhole"}
          => /\ res.k = "Trace"
             /\ at' \in {"run_trace", "blackhole", "body", "panic"}
             /\ at = "blackhole" => at' # "run_trace"
             /\ tracer' = tracer]_vars

\* a second recording has returned and its trace is in the cache
C12_Witness ==
    /\ at = "body"
    /\ h.kind = "StartTrace"
    /\ res.k = "StartTrace"
    /\ Cardinality(DOMAIN tracer.traces) = 2
    /\ h.e_pc \in DOMAIN tracer.traces
    /\ ~tracer.active.some

-----------------------------------------------------------------------------
(* Termination of merge_point in the counter client (FairSpec) *)

-----------------------------------------------------------------------------
(* The trace cache over sequences of merge_point calls (SpecDriver) *)

\* C14: over any sequence of merge_point calls the trace cache only grows:
\* a key once cached stays cached, with the same opcode sequence.
C14_CacheAppendOnly ==
    [][\A k \in DOMAIN tracer.traces :
           /\ k \in DOMAIN tracer'.traces
           /\ tracer'.traces[k] = tracer.traces[k]]_vars

\* a third trace has been added to a cache that holds a different one
C14_Witness ==
    /\ at = "body"
    /\ h.kind = "StartTrace"
    /\ Cardinality(DOMAIN tracer.traces) = 3
    /\ \E k \in DOMAIN tracer.traces :
           k # h.e_pc /\ tracer.traces[k] # tracer.traces[h.e_pc]

-----------------------------------------------------------------------------
(* bc::opt::eliminate_unused_vars.  The pass walks the stream from its last *)
(* opcode to its first and pushes what it keeps onto new.                   *)

Last(seq) == seq[Len(seq)]
DropLast(seq) == SubSeq(seq, 1, Len(seq) - 1)

\* active_cnt.entry(var).or_insert(0)
EntryOrZero(active_cnt, var) == IF var \in DOMAIN active_cnt THEN active_cnt[var] ELSE 0

\* the state of the pass before its first opcode
OptStart == [active |-> {}, active_cnt |-> EmptyMap, new |-> <<>>]

\* the body of the for loop, for one opcode
eliminate_step(o, oc) ==
    CASE oc.op = "Load" ->
           [o EXCEPT !.active_cnt = (oc.n :> EntryOrZero(o.active_cnt, oc.n) + 1) @@ @,
                     !.new = Append(@, oc)]
      [] oc.op = "Store" ->
           LET count == EntryOrZero(o.active_cnt, oc.n)
               entered == (oc.n :> count) @@ o.active_cnt
           IN  IF count = 0
               THEN [o EXCEPT !.active_cnt = entered, !.new = Append(@, Op("Pop"))]
               ELSE IF /\ Len(o.new) > 0
                       /\ Last(o.new).op = "Load"
                       /\ Last(o.new).n = oc.n
                       /\ count = 1
                    THEN [o EXCEPT !.active_cnt = entered, !.new = DropLast(@)]
                    ELSE [active |-> o.active \cup {oc.n},
                          active_cnt |-> (oc.n :> 0) @@ o.active_cnt,
                          new |-> Append(o.new, oc)]
      [] oc.op = "Tuple" /\ oc.n = 0 ->
           IF Len(o.new) > 0 /\ Last(o.new).op = "Pop"
           THEN [o EXCEPT !.new = DropLast(@)]
           ELSE [o EXCEPT !.new = Append(@, oc)]
      [] OTHER -> [o EXCEPT !.new = Append(@, oc)]

\* for oc in stream.iter().rev(): the opcodes i, i-1, ..., 1 of the stream
RECURSIVE EliminateFrom(_, _, _)
EliminateFrom(stream, i, o) ==
    IF i = 0 THEN o
    ELSE EliminateFrom(stream, i - 1, eliminate_step(o, stream[i]))

\* the pass returns new as it stands
eliminate_unused_vars(stream) == EliminateFrom(stream, Len(stream), OptStart).new

\* opcodes of the streams given to the pass
OptOps ==
    {OpN("Load", 0), OpN("Load", 1), OpN("Store", 0), OpN("Store", 1), Op("Pop"),
     ConstValue(Usize(1)), ConstValue(Usize(2)), OpN("Tuple", 0)}

Streams == UNION { [1..n -> OptOps] : n \in 0..MaxStream }

ROptimized(new) == [k |-> "Optimized", trace |-> new]

\* new = eliminate_unused_vars(&stream); cur_trace holds the stream
CallEliminate ==
    /\ at = "stream"
    /\ res' = ROptimized(eliminate_unused_vars(cur_trace))
    /\ at' = "optimized"
    /\ UNCHANGED <<user_program, cell, pc, tracer, st, ip, start, tpc, cur_trace, h>>

\* the pass applied to its own result
CallEliminateAgain ==
    /\ at = "optimized"
    /\ cur_trace' = res.trace
    /\ res' = ROptimized(eliminate_unused_vars(res.trace))
    /\ at' = "optimized twice"
    /\ UNCHANGED <<user_program, cell, pc, tracer, st, ip, start, tpc, h>>

InitOpt ==
    /\ user_program = <<>>
    /\ cell = 0
    /\ pc = 0
    /\ at = "stream"
    /\ tracer = NewTracer
    /\ st = NewInterpreter
    /\ ip = IDX
    /\ start = IDX
    /\ tpc = 0
    /\ cur_trace \in Streams
    /\ res = RNone
    /\ h = NewHistory

NextOpt ==
    \/ CallEliminate
    \/ CallEliminateAgain

SpecOpt == InitOpt /\ [][NextOpt]_vars

-----------------------------------------------------------------------------
(* Properties of eliminate_unused_vars (SpecOpt) *)

\* C15: eliminate_unused_vars is idempotent: applied to its own result it
\* returns that result, as a sequence.
C15_Idempotent ==
    at = "optimized twice" => res.trace = cur_trace

\* a frame of two locals holding a and b, under the operand stack stk
OptFrame(stk, a, b) ==
    [stack |-> stk, heap |-> <<Usize(a), Usize(b)>>, ok |-> TRUE,
     frames |-> << [locals |-> <<0, 1>>, return_addr |-> NoReturn] >>]

\* initial operand stacks and locals the streams are run from
OptFrames ==
    { OptFrame(stk, a, b) :
        stk \in {<<>>, <<Owned(Usize(7))>>, <<Owned(Usize(7)), Owned(Usize(8))>>},
        a \in {3}, b \in {4, 5} }

\* a straight-line stream run by the interpreter's opcodes; Pop drops the top
RECURSIVE RunStream(_, _)
RunStream(stream, s) ==
    IF stream = <<>> \/ ~s.ok THEN s
    ELSE IF Head(stream).op = "Pop"
         THEN RunStream(Tail(stream), IF HasTop(s) THEN Pop(s) ELSE Fail(s))
         ELSE RunStream(Tail(stream), SimpleOp(<<>>, s, Head(stream)))

\* the values on the operand stack, places read through
StackValues(s) == [i \in 1..Len(s.stack) |-> into_owned(s.heap, s.stack[i]).val]

\* q is p with some opcodes removed and some Stores turned into Pop
RECURSIVE KeepsOrder(_, _)
KeepsOrder(q, p) ==
    IF q = <<>> THEN TRUE
    ELSE IF p = <<>> THEN FALSE
    ELSE \/ /\ \/ Head(q) = Head(p)
               \/ Head(q).op = "Pop" /\ Head(p).op = "Store"
            /\ KeepsOrder(Tail(q), Tail(p))
         \/ KeepsOrder(q, Tail(p))

\* C16: for every straight-line stream p over Load, Store, Pop, ConstValue
\* and Tuple, the optimized stream run from any operand stack and locals ends
\* with the operand stack p ends with, and keeps its opcodes in the order
\* they have in p.
C16_SameOutput ==
    at = "optimized"
    => /\ KeepsOrder(res.trace, cur_trace)
       /\ \A s \in OptFrames :
              RunStream(cur_trace, s).ok
              => /\ RunStream(res.trace, s).ok
                 /\ StackValues(RunStream(res.trace, s))
                    = StackValues(RunStream(cur_trace, s))

-----------------------------------------------------------------------------
(* The Interpreter called directly: run_trace(trace) and                    *)
(* blackhole(start, stop) on an interpreter whose caller pushed one frame.  *)
(* h.kind names the method, h.stop the stop pointer of blackhole and        *)
(* h.fresh holds until the method's loop has taken its first turn.          *)

\* function 0: a loop with its header at 0, a merge point at 1, an inner
\* loop 4..6 and the closing jump at 7; function 1: a callee with a branch;
\* function 2: a caller that passes 1 and 2 to function 3, which has two
\* arguments and three locals and returns its second argument; function 4:
\* two places and a value taken from local 0, read after later stores to it
InterpProgram ==
    << [nargs |-> 0, nlocals |-> 1,
        code |-> << Op("Noop"),                \* 0 loop header
                    Op("Noop"),                \* 1 merge point
                    ConstValue(Usize(1)),      \* 2
                    OpN("Store", 0),           \* 3
                    Op("Noop"),                \* 4 inner loop
                    OpN("SkipIf", 2),          \* 5 -> 7
                    OpN("JumpBack", 2),        \* 6 -> 4
                    OpN("JumpBack", 7) >>],    \* 7 -> 0
       [nargs |-> 0, nlocals |-> 1,
        code |-> << Op("Noop"),                \* 0
                    OpN("SkipIf", 1),          \* 1 -> 2
                    Op("Return") >>],          \* 2
       [nargs |-> 0, nlocals |-> 1,
        code |-> << ConstValue(Usize(1)),      \* 0
                    ConstValue(Usize(2)),      \* 1
                    ConstValue(FuncV(3)),      \* 2
                    Op("Call"),                \* 3
                    OpN("Store", 0),           \* 4
                    Op("Return") >>],          \* 5
       [nargs |-> 2, nlocals |-> 3,
        code |-> << OpN("Load", 1),            \* 0
                    Op("Return") >>],          \* 1
       [nargs |-> 0, nlocals |-> 3,
        code |-> << ConstValue(Usize(1)),      \*  0
                    OpN("Store", 0),           \*  1 local 0 = 1
                    OpN("Load", 0),            \*  2 a place
                    OpN("Load", 0),            \*  3
                    Op("Ref"),                 \*  4
                    Op("Deref"),               \*  5 a place through a pointer
                    OpN("Load", 0),            \*  6
                    Op("Use"),                 \*  7 a value
                    ConstValue(Usize(2)),      \*  8
                    OpN("Store", 0),           \*  9 local 0 = 2
                    OpN("Store", 1),           \* 10 local 1 = the value
                    Op("Use"),                 \* 11 the second place, read
                    OpN("Store", 2),           \* 12 local 2 = what it holds
                    ConstValue(Usize(3)),      \* 13
                    OpN("Store", 0),           \* 14 local 0 = 3
                    Op("Use"),                 \* 15 the first place, read
                    Op("Return") >>] >>        \* 16

\* interp.stack_frames.push(frame): one frame of three locals, and what
\* run_trace left on the operand stack
InterpFrame(stk) ==
    [stack |-> stk, heap |-> <<Null, Null, Null>>, ok |-> TRUE,
     frames |-> << [locals |-> <<0, 1, 2>>, return_addr |-> NoReturn] >>]

InterpStarts == {IP(0, 0), IP(0, 4), IP(0, 5), IP(0, 6), IP(0, 7), IP(1, 1), IP(2, 0)}

\* the merge point of function 0, and the first opcodes of functions 2 and 4
InterpStops == {IDX, IP(2, 0), IP(4, 0)}

InterpTraces ==
    { << Op("Noop") >>,
      << ConstValue(Bool(TRUE)), Op("Not"), GuardOp(TRUE, IP(0, 5)) >>,
      << ConstValue(Bool(TRUE)), GuardOp(TRUE, IP(0, 5)), GuardOp(TRUE, IP(1, 1)) >>,
      << GuardOp(TRUE, IP(0, 5)), ConstValue(Bool(TRUE)), ConstValue(Bool(FALSE)) >>,
      << ConstValue(FuncV(1)), Op("Call"), Op("Return") >>,
      << OpN("Static", 1), Op("Return") >>,
      << Op("Return") >>,
      << Op("Neg") >> }

InterpHistory(kind, stop) == [kind |-> kind, stop |-> stop, fresh |-> TRUE]

\* interp.blackhole(start_ip, stop_ip)
CallBlackhole ==
    /\ at = "interp"
    /\ \E start_ip \in InterpStarts, stop_ip \in InterpStops :
           /\ start' = start_ip
           /\ ip' = BlackholeEntry(start_ip, stop_ip)
           /\ h' = InterpHistory("blackhole", stop_ip)
    /\ at' = "blackhole"
    /\ UNCHANGED <<user_program, cell, pc, tracer, st, tpc, cur_trace, res>>

\* one turn of blackhole's loop
BlackholeTurn ==
    /\ at = "blackhole"
    /\ \E oc \in {Fetch(InterpProgram, ip)} :
       \E b \in {blackhole_step(InterpProgram, st, oc, ip, start, h.stop)} :
           /\ st' = b.s
           /\ ip' = b.ip
           /\ at' = CASE b.out = "run" -> "blackhole"
                      [] b.out = "return" -> "returned"
                      [] b.out = "panic" -> "panic"
           /\ h' = [h EXCEPT !.fresh = FALSE]
    /\ UNCHANGED <<user_program, cell, pc, tracer, start, tpc, cur_trace, res>>

\* interp.run_trace(trace)
CallRunTrace ==
    /\ at = "interp"
    /\ \E trace \in InterpTraces : cur_trace' = trace
    /\ tpc' = 0
    /\ at' = "run_trace"
    /\ h' = InterpHistory("run_trace", IDX)
    /\ UNCHANGED <<user_program, cell, pc, tracer, st, ip, start, res>>

\* one turn of run_trace's loop; a failed guard is returned
RunTraceTurn ==
    /\ at = "run_trace"
    /\ \E oc \in {FetchTrace(cur_trace, tpc)} :
       \E r \in {run_trace_step(InterpProgram, st, oc, cur_trace, tpc)} :
           /\ st' = r.s
           /\ tpc' = r.tpc
           /\ at' = CASE r.out = "run" -> "run_trace"
                      [] r.out = "guard" -> "returned"
                      [] r.out = "panic" -> "panic"
           /\ res' = IF r.out = "guard" THEN [k |-> "Guard", trace |-> << oc >>] ELSE res
           /\ h' = [h EXCEPT !.fresh = FALSE]
    /\ UNCHANGED <<user_program, cell, pc, tracer, ip, start, cur_trace>>

\* merge_point on the guard run_trace returned: recovery from the guard's
\* pc, in the merge point's function, up to the merge point
RecoverFromGuard ==
    /\ at = "returned"
    /\ h.kind = "run_trace"
    /\ res.k = "Guard"
    /\ \E guard \in {res.trace[1]} :
       \E start_ip \in {IP(IDX.func, guard.recovery.pc)} :
           /\ start' = start_ip
           /\ ip' = BlackholeEntry(start_ip, IDX)
    /\ at' = "blackhole"
    /\ h' = InterpHistory("recovery", IDX)
    /\ UNCHANGED <<user_program, cell, pc, tracer, st, tpc, cur_trace, res>>

InitInterp ==
    /\ user_program = <<>>
    /\ cell = 0
    /\ pc = 0
    /\ at = "interp"
    /\ tracer = NewTracer
    /\ \E stk \in {<<>>, <<Owned(Bool(TRUE))>>, <<Owned(Bool(FALSE))>>} :
           st = InterpFrame(stk)
    /\ ip = IDX
    /\ start = IDX
    /\ tpc = 0
    /\ cur_trace = <<>>
    /\ res = RNone
    /\ h = InterpHistory("", IDX)

NextInterp ==
    \/ CallBlackhole
    \/ BlackholeTurn
    \/ CallRunTrace
    \/ RunTraceTurn
    \/ RecoverFromGuard

SpecInterp == InitInterp /\ [][NextInterp]_vars

-----------------------------------------------------------------------------
(* C17                                                                      *)

JumpOps == {"Skip", "JumpBack", "SkipIf", "JumpBackIf"}

\* C17: every opcode other than Guard and the four jumps that the baseline
\* dispatch executes on the current stacks is executed by run_trace too,
\* and leaves the operand stack and the call frames as dispatch leaves them.
C17_BaselineSemantics ==
    [][(/\ at = "run_trace"
        /\ FetchTrace(cur_trace, tpc).op \notin JumpOps \cup {"Guard"}
        /\ dispatch(InterpProgram, st, FetchTrace(cur_trace, tpc), IDX).s.ok)
       => \E d \in {dispatch(InterpProgram, st, FetchTrace(cur_trace, tpc), IDX)} :
              /\ at' # "panic"
              /\ st'.stack = d.s.stack
              /\ st'.frames = d.s.frames]_vars

-----------------------------------------------------------------------------
(* C18                                                                      *)

-----------------------------------------------------------------------------
(* C19                                                                      *)

\* the position the baseline interpreter would execute next when the
\* blackhole turn at ip returns
NextAfterReturn ==
    IF BlackholeBreak(ip, start, h.stop)
    THEN ip
    ELSE IP(ip.func, dispatch(InterpProgram, st, Fetch(InterpProgram, ip), ip).r.pc)

\* C19: whenever blackhole(start, stop) returns, the next instruction of the
\* baseline interpreter is stop.
C19_ReturnsAtStop ==
    [][(at = "blackhole" /\ at' = "returned") => NextAfterReturn = h.stop]_vars

-----------------------------------------------------------------------------
(* C20                                                                      *)

\* the blackhole turn at ip dispatches its opcode and the result is Jump
BlackholeJumps ==
    /\ at = "blackhole"
    /\ Fetch(InterpProgram, ip) # NoCode
    /\ ~BlackholeBreak(ip, start, h.stop)
    /\ dispatch(InterpProgram, st, Fetch(InterpProgram, ip), ip).s.ok
    /\ dispatch(InterpProgram, st, Fetch(InterpProgram, ip), ip).r.k = "Jump"

\* C20: a jump of blackhole to an index below the recovery start ends
\* blackhole with the effect of the jump opcode and nothing more; a jump to
\* an index at or after the recovery start is followed.
C20_ForwardOnly ==
    [][BlackholeJumps
       => \E d \in {dispatch(InterpProgram, st, Fetch(InterpProgram, ip), ip)} :
              /\ st' = d.s
              /\ IF d.r.pc < start.pc
                 THEN at' = "returned"
                 ELSE at' = "blackhole" /\ ip' = IP(ip.func, d.r.pc)]_vars

\* blackhole from the branch at 5 followed the taken jump to 7 and stopped at
\* the jump from 7 to 0
C20_Witness ==
    /\ at = "returned"
    /\ h.kind = "blackhole"
    /\ start = IP(0, 5)
    /\ ip = IP(0, 7)

-----------------------------------------------------------------------------
(* C21                                                                      *)

\* the opcode of a non-empty trace that the turn at tpc executes: the one at
\* tpc, or the first when tpc is past the last
TurnIndex == IF tpc >= Len(cur_trace) THEN 1 ELSE tpc + 1

GuardMismatch(s, guard) ==
    /\ CanValue(InterpProgram, s)
    /\ peek_value(InterpProgram, s).t = "Bool"
    /\ peek_value(InterpProgram, s).v # guard.expected

\* C21: run_trace runs its trace in a circle and returns only a guard that
\* mismatched: a turn past the last opcode executes the first one, a turn
\* that does not return goes on at the following index, a Noop always goes
\* on, and a turn returns only when its opcode is a Guard whose expected
\* value differs from the boolean on the stack, which it returns.
C21_CircularUntilGuardFails ==
    [][(at = "run_trace" /\ cur_trace # <<>>)
       => \E oc \in {cur_trace[TurnIndex]} :
              /\ oc.op = "Noop" => at' = "run_trace"
              /\ (at' = "run_trace" /\ oc.op \notin JumpOps) => tpc' = TurnIndex
              /\ at' = "returned" => /\ oc.op = "Guard"
                                     /\ GuardMismatch(st, oc)
                                     /\ res' = [k |-> "Guard", trace |-> << oc >>]
              /\ (oc.op = "Guard" /\ GuardMismatch(st, oc)) => at' = "returned"]_vars

\* the guard at index 0 matched in the first pass and failed in the second,
\* with the two constants of the first pass on the stack
C21_Witness ==
    /\ at = "returned"
    /\ h.kind = "run_trace"
    /\ cur_trace = << GuardOp(TRUE, IP(0, 5)), ConstValue(Bool(TRUE)), ConstValue(Bool(FALSE)) >>
    /\ Len(st.stack) = 2

-----------------------------------------------------------------------------
(* C22                                                                      *)

\* the blackhole turn at ip dispatches a Call whose function reference and
\* arguments are on the stack
BlackholeCalls ==
    /\ at = "blackhole"
    /\ Fetch(InterpProgram, ip) = Op("Call")
    /\ ~BlackholeBreak(ip, start, h.stop)
    /\ dispatch(InterpProgram, st, Op("Call"), ip).s.ok

Callee == At(InterpProgram, into_owned(st.heap, Top(st)).val.v)

\* the value of the stack entry at depth d below the function reference
ArgBelow(d) == into_owned(st.heap, st.stack[Len(st.stack) - d]).val

\* the call pushed a frame of the callee's local count and went to the
\* callee's opcode 0, having popped the function reference and n values:
\* the value right below the reference is in local n - 1, the next in
\* local n - 2, ..., and the locals from n on are empty
CallPopped(n) ==
    /\ Len(st.stack) >= 1 + n
    /\ at' = "blackhole"
    /\ ip' = IP(into_owned(st.heap, Top(st)).val.v, 0)
    /\ Len(st'.frames) = Len(st.frames) + 1
    /\ Len(active_frame(st').locals) = Callee.nlocals
    /\ st'.stack = SubSeq(st.stack, 1, Len(st.stack) - 1 - n)
    /\ \A i \in 0 .. Callee.nlocals - 1 :
           CellValue(st'.heap, At(active_frame(st').locals, i))
               = IF i < n THEN ArgBelow(n - i) ELSE Null

\* C22: Call pops a function reference, creates a frame of the callee's
\* local count, pops as many values as the callee declares arguments into
\* the first locals, the top of the stack into the highest of them, pushes
\* the frame and goes to the callee's opcode 0.
C22_CallPopsArguments == [][BlackholeCalls => CallPopped(Callee.nargs)]_vars

\* C22 as stated: as many values as the callee declares locals are popped
C22_CallPopsLocalCount == [][BlackholeCalls => CallPopped(Callee.nlocals)]_vars

\* function 2 called function 3 with one value left on the stack below the
\* two arguments
C22_Witness ==
    /\ at = "blackhole"
    /\ ip = IP(3, 0)
    /\ Len(st.frames) = 2
    /\ Len(st.stack) = 1

-----------------------------------------------------------------------------
(* C23                                                                      *)

\* the blackhole turn at ip dispatches the Return of a called function: the
\* active frame holds the position of its Call as return address
BlackholeReturns ==
    /\ at = "blackhole"
    /\ Fetch(InterpProgram, ip) = Op("Return")
    /\ ~BlackholeBreak(ip, start, h.stop)
    /\ HasFrame(st)
    /\ active_frame(st).return_addr.some

\* C23: the Return that matches a Call at (f, p) pops the callee's frame and
\* execution goes on in function f at p + 1.
C23_ResumesAfterCall ==
    [][BlackholeReturns
       => \E ret \in {active_frame(st).return_addr} :
              /\ Len(st'.frames) = Len(st.frames) - 1
              /\ at' = "blackhole"
              /\ ip' = IP(ret.func, ret.pc + 1)]_vars

-----------------------------------------------------------------------------
(* C24                                                                      *)

\* the blackhole turn at ip dispatches a Return in the outermost frame
BlackholeReturnsOutermost ==
    /\ at = "blackhole"
    /\ Fetch(InterpProgram, ip) = Op("Return")
    /\ ~BlackholeBreak(ip, start, h.stop)
    /\ Len(st.frames) = 1
    /\ ~active_frame(st).return_addr.some

\* C24: a Return in a frame without return address ends the blackhole run:
\* blackhole returns to its caller and does not abort.
C24_OutermostReturnEnds ==
    [][BlackholeReturnsOutermost => at' = "returned"]_vars

-----------------------------------------------------------------------------
(* C25                                                                      *)

LocalValue(s, i) == CellValue(s.heap, At(active_frame(s).locals, i))

\* blackhole ran function 4 from its first opcode up to its Return
AfterPlacesAndValues ==
    /\ at = "blackhole"
    /\ h.stop = IP(4, 0)
    /\ start.pc = 0
    /\ ip = IP(4, 16)

\* the blackhole turn at ip dispatches a Store that does not abort
BlackholeStores ==
    /\ at = "blackhole"
    /\ Fetch(InterpProgram, ip) # NoCode
    /\ Fetch(InterpProgram, ip).op = "Store"
    /\ ~BlackholeBreak(ip, start, h.stop)
    /\ dispatch(InterpProgram, st, Fetch(InterpProgram, ip), ip).s.ok

\* C25: a place taken from local 0, by Load or by Load, Ref, Deref, reads
\* what the latest Store to local 0 wrote (3 and 2), the value taken before
\* the stores is still 1, and a Store changes the one cell of its local and
\* no frame: the locals keep the cells they had, each its own.
C25_PlacesAliasValuesDoNot ==
    /\ [](AfterPlacesAndValues
          => /\ st.stack[Len(st.stack)] = Owned(Usize(3))
             /\ LocalValue(st, 2) = Usize(2)
             /\ LocalValue(st, 1) = Usize(1)
             /\ LocalValue(st, 0) = Usize(3))
    /\ [][BlackholeStores
          => \E i \in {Fetch(InterpProgram, ip).n} :
                 /\ st'.frames = st.frames
                 /\ LocalValue(st', i) = into_owned(st.heap, Top(st)).val
                 /\ \A c \in 0 .. Len(st.heap) - 1 :
                        c # At(active_frame(st).locals, i)
                            => CellValue(st'.heap, c) = CellValue(st.heap, c)
                 /\ \A j, k \in 0 .. Len(active_frame(st').locals) - 1 :
                        j # k => At(active_frame(st').locals, j)
                                     # At(active_frame(st').locals, k)]_vars

C25_Witness ==
    /\ AfterPlacesAndValues
    /\ st.stack[Len(st.stack)] = Owned(Usize(3))
    /\ LocalValue(st, 1) = Usize(1)

-----------------------------------------------------------------------------
(* C26                                                                      *)

\* C26: between two merge_point calls the tracer is idle, the call that
\* started a recording has cached it under its key when it returns, and no
\* call of handle_mergepoint by merge_point takes the branch that panics.
C26_IdleBetweenCalls ==
    /\ at \in {"header", "body"} => ~tracer.active.some
    /\ (at = "body" /\ h.kind = "StartTrace") => h.e_pc \in DOMAIN tracer.traces
    /\ res.k # "Panic"

\* a call that neither records nor replays, made after an earlier call
\* recorded and cached a trace
C26_Witness ==
    /\ at = "body"
    /\ h.kind = "None"
    /\ DOMAIN tracer.traces # {}
    /\ ~tracer.active.some

-----------------------------------------------------------------------------
(* C27                                                                      *)

\* the opcode of log entry e, run at e.pos, jumped to an index below the
\* merge point: an unconditional jump, or a branch taken on the boolean e.top
ClosesLoop(e) ==
    \/ e.oc.op = "JumpBack" /\ e.pos.pc - e.oc.n < IDX.pc
    \/ e.oc.op = "JumpBackIf" /\ e.top /\ e.pos.pc - e.oc.n < IDX.pc
    \/ e.oc.op = "Skip" /\ e.pos.pc + e.oc.n < IDX.pc
    \/ e.oc.op = "SkipIf" /\ e.top /\ e.pos.pc + e.oc.n < IDX.pc

\* C27: while a recording runs no opcode given to the recorder has jumped
\* below the merge point; when the call that recorded returns, the last
\* opcode given to the recorder is the first that did, and the buffer is
\* cached under the pc the call was made with.
C27_RecordingEndsAtLoopClose ==
    /\ at = "trace" => \A i \in 1..Len(h.log) : ~ClosesLoop(h.log[i])
    /\ (at = "body" /\ h.kind = "StartTrace")
       => /\ h.log # <<>>
          /\ ClosesLoop(h.log[Len(h.log)])
          /\ \A i \in 1..(Len(h.log) - 1) : ~ClosesLoop(h.log[i])
          /\ h.e_pc \in DOMAIN tracer.traces
          /\ tracer.traces[h.e_pc] = Recorded(h.log)

\* a recording that passed forward jumps and ended at the jump back to the
\* loop header has been cached
C27_Witness ==
    /\ at = "body"
    /\ h.kind = "StartTrace"
    /\ h.log # <<>>
    /\ h.log[Len(h.log)].oc.op = "JumpBack"
    /\ \E i \in 1..Len(h.log) : h.log[i].oc.op = "Skip"
    /\ h.e_pc \in DOMAIN tracer.traces

=============================================================================
